---- MODULE Spec2Model ----
(***************************************************************************)
(* Repository discovery and aggregation (getProjectinfo): the root search  *)
(* findGitRootInSubdirectories, the topology builder getDirectoryHierarchy,*)
(* the configuration scanner extractUrlsFromConfig, and the aggregator     *)
(* fetchRepositoryInfo with its caller displayRepositoryInfo.              *)
(*                                                                         *)
(* A path is the sequence of its segments (<<>> is "/"); a text is the     *)
(* sequence of its characters.  The filesystem and the git backend are the *)
(* environment: the tree is built by Mkdir / Chmod steps, the backend      *)
(* answers are drawn per call.                                             *)
(***************************************************************************)
EXTENDS Integers, Sequences, FiniteSets, TLC

VARIABLES fs, unreadable, configLines, ret, shown

vars == <<fs, unreadable, configLines, ret, shown>>

\* ---------------------------------------------------------------- bounds
MaxEntries == 3
MaxDepth == 2
MaxLines == 3
MaxUnreadable == 1
MaxRepoEntries == 1

\* ------------------------------------------------------------ filesystem
GIT == ".git"
Names == {GIT, "a", "b"}
Kinds == {"dir", "file"}

\* what a call leaves behind
NoCall == [op |-> "none"]
Throw(why) == [kind |-> "throw", why |-> why]
Null == [kind |-> "null"]
Found(p) == [kind |-> "path", path |-> p]

\* one call at a time: ret holds the outcome of the last call until the
\* caller has taken it; the environment changes the tree between calls
Idle == ret = NoCall

Discard ==
  /\ ~Idle
  /\ ret' = NoCall
  /\ shown' = <<>>
  /\ UNCHANGED <<fs, unreadable, configLines>>

EntryNames(listing) == {listing[i].name : i \in 1..Len(listing)}

RECURSIVE SumLen(_, _)
SumLen(f, ds) ==
  IF ds = {} THEN 0
  ELSE LET d == CHOOSE x \in ds : TRUE IN Len(f[d]) + SumLen(f, ds \ {d})

TotalEntries == SumLen(fs, DOMAIN fs)

\* fs/promises creates nothing itself: the tree the calls read is grown by
\* the environment, one entry at a time, appended to its parent's listing
\* (so every listing order is reachable).
Grow(max, p, n, k) ==
  /\ Idle
  /\ p \in DOMAIN fs
  /\ Len(p) < MaxDepth
  /\ TotalEntries < max
  /\ n \notin EntryNames(fs[p])
  /\ LET child == Append(p, n)
         dirs == IF k = "dir" THEN DOMAIN fs \cup {child} ELSE DOMAIN fs
     IN fs' = [d \in dirs |->
                 IF d = p THEN Append(fs[p], [name |-> n, kind |-> k])
                 ELSE IF d \in DOMAIN fs THEN fs[d] ELSE <<>>]
  /\ UNCHANGED <<unreadable, configLines, ret, shown>>

Mkdir(p, n, k) == Grow(MaxEntries, p, n, k)

\* a directory whose readdir rejects (EACCES)
Chmod(p) ==
  /\ Idle
  /\ p \in DOMAIN fs
  /\ p \in unreadable \/ Cardinality(unreadable) < MaxUnreadable
  /\ unreadable' = IF p \in unreadable THEN unreadable \ {p} ELSE unreadable \cup {p}
  /\ UNCHANGED <<fs, configLines, ret, shown>>

\* ------------------------------------------------------------ RootLocator
RECURSIVE findGitRootInSubdirectories(_)
RECURSIVE ScanItems(_, _)

\* as ScanItems, the entry's type not looked at: a .git file counts as marker
ScanItems_AnyKind(currentPath, i) ==
  IF i > Len(fs[currentPath]) THEN Null
  ELSE LET item == fs[currentPath][i]
           itemPath == Append(currentPath, item.name)
       IN IF item.name = GIT THEN Found(currentPath)
          ELSE IF item.kind = "dir"
          THEN LET gitRoot == findGitRootInSubdirectories(itemPath)
               IN IF gitRoot.kind = "null"
                  THEN ScanItems(currentPath, i + 1)
                  ELSE gitRoot
          ELSE ScanItems(currentPath, i + 1)

\* the for-loop of findGitRootInSubdirectories from item i on
ScanItems(currentPath, i) ==
  IF i > Len(fs[currentPath]) THEN Null
  ELSE LET item == fs[currentPath][i]
           itemPath == Append(currentPath, item.name)
       IN IF item.kind = "dir"
          THEN IF item.name = GIT THEN Found(currentPath)
               ELSE LET gitRoot == findGitRootInSubdirectories(itemPath)
                    IN IF gitRoot.kind = "null"
                       THEN ScanItems(currentPath, i + 1)
                       ELSE gitRoot
          ELSE ScanItems(currentPath, i + 1)

\* as findGitRootInSubdirectories, a failed read taken for an empty listing
findGitRootInSubdirectories_Skip(currentPath) ==
  IF currentPath \in unreadable THEN Null
  ELSE ScanItems(currentPath, 1)

findGitRootInSubdirectories(currentPath) ==
  IF currentPath \in unreadable THEN Throw("readdir")
  ELSE ScanItems(currentPath, 1)

LocateRoot(p) ==
  /\ Idle
  /\ p \in DOMAIN fs
  /\ ret' = [op |-> "locate", arg |-> p, out |-> findGitRootInSubdirectories(p)]
  /\ UNCHANGED <<fs, unreadable, configLines, shown>>

\* -------------------------------------------------------- TopologyBuilder
Min(a, b) == IF a < b THEN a ELSE b

RECURSIVE CommonLen(_, _, _)
CommonLen(from, to, i) ==
  IF i < Min(Len(from), Len(to)) /\ from[i + 1] = to[i + 1]
  THEN CommonLen(from, to, i + 1)
  ELSE i

\* path.relative(from, to): up out of what is left of `from`, then down `to`
relative(from, to) ==
  LET c == CommonLen(from, to, 0)
  IN [i \in 1..(Len(from) - c) |-> ".."] \o SubSeq(to, c + 1, Len(to))

\* path.resolve(base, label), segment by segment
RECURSIVE resolve(_, _)
resolve(base, label) ==
  IF label = <<>> THEN base
  ELSE LET s == Head(label)
           b == IF s = "." THEN base
                ELSE IF s = ".." THEN (IF base = <<>> THEN base
                                       ELSE SubSeq(base, 1, Len(base) - 1))
                ELSE Append(base, s)
       IN resolve(b, Tail(label))

\* as NodeName, the directory's own name in place of its relative path
NodeName_Basename(basePath, dirPath) ==
  IF dirPath = basePath THEN <<".">> ELSE <<dirPath[Len(dirPath)]>>

\* relative(basePath, dirPath) || "."
NodeName(basePath, dirPath) ==
  LET r == relative(basePath, dirPath) IN IF r = <<>> THEN <<".">> ELSE r

RECURSIVE getDirectoryHierarchy(_, _)
RECURSIVE HierItems(_, _, _, _)

\* the for-loop of getDirectoryHierarchy from item i on; subs is
\* dirInfo.subdirectories so far
HierItems(dirPath, basePath, i, subs) ==
  IF i > Len(fs[dirPath])
  THEN [kind |-> "node", name |-> NodeName(basePath, dirPath), path |-> dirPath,
        subdirectories |-> subs]
  ELSE LET item == fs[dirPath][i]
           itemPath == Append(dirPath, item.name)
       IN IF item.kind = "dir"
          THEN LET subDirInfo == getDirectoryHierarchy(itemPath, basePath)
               IN IF subDirInfo.kind = "throw" THEN subDirInfo
                  ELSE HierItems(dirPath, basePath, i + 1, Append(subs, subDirInfo))
          ELSE HierItems(dirPath, basePath, i + 1, subs)

getDirectoryHierarchy(dirPath, basePath) ==
  IF dirPath \in unreadable THEN Throw("readdir")
  ELSE HierItems(dirPath, basePath, 1, <<>>)

BuildTopology(root) ==
  /\ Idle
  /\ root \in DOMAIN fs
  /\ ret' = [op |-> "topology", arg |-> root, out |-> getDirectoryHierarchy(root, root)]
  /\ UNCHANGED <<fs, unreadable, configLines, shown>>

InitFS ==
  /\ fs = (<<>> :> <<>>)
  /\ unreadable = {}
  /\ ret = NoCall
  /\ configLines = <<>>
  /\ shown = <<>>

NextFS ==
  \/ \E p \in DOMAIN fs, n \in Names, k \in Kinds : Mkdir(p, n, k)
  \/ \E p \in DOMAIN fs : Chmod(p)
  \/ \E p \in DOMAIN fs : LocateRoot(p)
  \/ \E p \in DOMAIN fs : BuildTopology(p)
  \/ Discard

SpecFS == InitFS /\ [][NextFS]_vars

\* ----------------------------------------------------- ConfigUrlExtractor
\* characters of a text: one-character strings
SP == " "
TAB == "\t"
NL == "\n"
IsWs(c) == c \in {SP, TAB, NL}
\* what the pattern's . matches: anything but a line terminator
IsDot(c) == c # NL

\* first index >= i that is past the text or holds no whitespace (\s*, greedy)
RECURSIVE SkipWs(_, _)
SkipWs(t, i) == IF i <= Len(t) /\ IsWs(t[i]) THEN SkipWs(t, i + 1) ELSE i

\* first index >= i that is past the text or holds a line terminator (.+, greedy)
RECURSIVE LineEnd(_, _)
LineEnd(t, i) == IF i <= Len(t) /\ IsDot(t[i]) THEN LineEnd(t, i + 1) ELSE i

Max(S) == CHOOSE x \in S : \A y \in S : y <= x

NoMatch == [found |-> FALSE]

\* /url\s*=\s*(.+)/ tried at index i: "url", whitespace, "=", then the
\* second \s* gives back whitespace until (.+) has a character to start on
MatchAt(t, i) ==
  IF i + 2 <= Len(t) /\ SubSeq(t, i, i + 2) = <<"u", "r", "l">>
  THEN LET eq == SkipWs(t, i + 3)
       IN IF eq <= Len(t) /\ t[eq] = "="
          THEN LET starts == {k \in (eq + 1)..SkipWs(t, eq + 1) :
                                k <= Len(t) /\ IsDot(t[k])}
               IN IF starts = {} THEN NoMatch
                  ELSE LET k == Max(starts)
                       IN [found |-> TRUE, group |-> SubSeq(t, k, LineEnd(t, k) - 1),
                           lastIndex |-> LineEnd(t, k)]
          ELSE NoMatch
  ELSE NoMatch

\* urlPattern.exec from lastIndex on: the leftmost match
RECURSIVE Exec(_, _)
Exec(t, from) ==
  IF from > Len(t) THEN NoMatch
  ELSE LET m == MatchAt(t, from) IN IF m.found THEN m ELSE Exec(t, from + 1)

\* String.prototype.trim: whitespace off both ends
RECURSIVE TrimEnd(_)
TrimEnd(t) ==
  IF t # <<>> /\ IsWs(t[Len(t)]) THEN TrimEnd(SubSeq(t, 1, Len(t) - 1)) ELSE t
Trim(t) == TrimEnd(SubSeq(t, SkipWs(t, 1), Len(t)))

\* the while-loop of extractUrlsFromConfig
RECURSIVE ExecLoop(_, _, _)
ExecLoop(t, lastIndex, found) ==
  LET match == Exec(t, lastIndex)
  IN IF match.found
     THEN ExecLoop(t, match.lastIndex, Append(found, Trim(match.group)))
     ELSE found

extractUrlsFromConfig(configContent) == ExecLoop(configContent, 1, <<>>)

\* lines a local configuration file is made of
UrlLineA == <<"u", "r", "l", SP, "=", SP, "x">>
UrlLineB == <<TAB, "u", "r", "l", "=", "y", SP>>
PushUrlLine == <<"p", "u", "r", "l", SP, "=", SP, "z">>
EmptyUrlLine == <<"u", "r", "l", SP, "=", SP>>
SectionLine == <<"[", "c", "]">>
OtherLine == <<TAB, "n", SP, "=", SP, "v">>
SampleLines == {UrlLineA, UrlLineB, PushUrlLine, EmptyUrlLine, SectionLine, OtherLine}

\* the file's content: every line with its terminator
RECURSIVE Join(_)
Join(ls) == IF ls = <<>> THEN <<>> ELSE Head(ls) \o <<NL>> \o Join(Tail(ls))

\* the configuration file is written by the environment, a line at a time
AppendLine(l) ==
  /\ Idle
  /\ Len(configLines) < MaxLines
  /\ configLines' = Append(configLines, l)
  /\ UNCHANGED <<fs, unreadable, ret, shown>>

ExtractUrls ==
  /\ Idle
  /\ ret' = [op |-> "extract", arg |-> Join(configLines),
             out |-> extractUrlsFromConfig(Join(configLines))]
  /\ UNCHANGED <<fs, unreadable, configLines, shown>>

NextUrl ==
  \/ \E l \in SampleLines : AppendLine(l)
  \/ ExtractUrls
  \/ Discard

SpecUrl == InitFS /\ [][NextUrl]_vars

\* ------------------------------------------------------ SnapshotAggregator
\* an answer of the backend or of the file reader to one call
Ok(v) == [st |-> "ok", val |-> v]
Fail == [st |-> "fail"]
Unasked == [st |-> "unasked"]

RemoteAnswers == {Fail, Ok(<<>>), Ok(<<"u", NL>>)}
BranchAnswers == {Fail, Ok(<<"m", NL>>)}
\* status.tracking is a ref name, or null (here the empty text: both falsy)
StatusAnswers == {Fail, Ok([tracking |-> <<>>]), Ok([tracking |-> <<"o">>])}
LogAnswers == {Fail, Ok([all |-> <<"c2", "c1">>])}
DiffAnswers == {Fail, Ok([files |-> <<"f">>])}
TrackLogAnswers == {Fail, Ok([all |-> <<>>]), Ok([all |-> <<"c1">>])}
ConfigAnswers == {Fail, Ok(<<>>), Ok(Join(<<SectionLine, UrlLineA, UrlLineB>>))}

Backends ==
  [remote : RemoteAnswers, branch : BranchAnswers, status : StatusAnswers,
   log : LogAnswers, diff : DiffAnswers, trackLog : TrackLogAnswers,
   config : ConfigAnswers]

CallNames == {"remote", "branch", "status", "log", "diff", "trackLog", "config"}

NoRepoMsg == "No Git repository found in the current project hierarchy."
ConfigMsg == "Error reading config file"
FetchMsg == "Error fetching repository info"
NoWorkspaceMsg == "No workspace opened."

\* how a call of fetchRepositoryInfo ends: the calls it made, the messages
\* it showed, and what it threw or returned
Raise(why, calls, msgs) == [kind |-> "throw", why |-> why, calls |-> calls, shown |-> msgs]
Return(v, calls, msgs) == [kind |-> "ok", val |-> v, calls |-> calls, shown |-> msgs]

\* as listRemote, the rejection not caught
listRemote_Uncaught(answer) ==
  IF answer.st = "ok" THEN [kind |-> "ok", val |-> answer.val] ELSE Throw("listRemote")

\* try { remoteUrl = await git.listRemote(...) } catch { remoteUrl = null }
listRemote(answer) ==
  [kind |-> "ok", val |-> IF answer.st = "ok" THEN answer.val ELSE <<>>]

\* as diffSummary, a rejection answered with no files
diffSummary_Swallowed(answer) ==
  [kind |-> "ok", val |-> IF answer.st = "ok" THEN answer.val ELSE [files |-> <<>>]]

\* await git.diffSummary()
diffSummary(answer) ==
  IF answer.st = "ok" THEN [kind |-> "ok", val |-> answer.val] ELSE Throw("diffSummary")

\* as readConfig, the error reported and thrown on
readConfig_Fatal(answer) ==
  IF answer.st = "ok"
  THEN [kind |-> "ok", configUrls |-> extractUrlsFromConfig(answer.val), shown |-> <<>>]
  ELSE [kind |-> "throw", why |-> "readFile", shown |-> <<ConfigMsg>>]

\* try { readFile; extractUrlsFromConfig } catch { showErrorMessage }
readConfig(answer) ==
  IF answer.st = "ok"
  THEN [kind |-> "ok", configUrls |-> extractUrlsFromConfig(answer.val), shown |-> <<>>]
  ELSE [kind |-> "ok", configUrls |-> <<>>, shown |-> <<ConfigMsg>>]

\* resolve(gitRoot).split("/").pop()
mainFolderName(gitRoot) == IF gitRoot = <<>> THEN "" ELSE gitRoot[Len(gitRoot)]

fetchRepositoryInfo(repoPath, git) ==
  LET gitRoot == findGitRootInSubdirectories(repoPath)
  IN IF gitRoot.kind = "throw" THEN Raise(gitRoot.why, {}, <<>>)
     ELSE IF gitRoot.kind = "null" THEN Raise(NoRepoMsg, {}, <<>>)
     ELSE
  LET remoteUrl == listRemote(git.remote)
      c1 == {"remote"}
  IN IF remoteUrl.kind = "throw" THEN Raise(remoteUrl.why, c1, <<>>) ELSE
  LET c2 == c1 \cup {"branch"}
  IN IF git.branch.st # "ok" THEN Raise("revparse", c2, <<>>) ELSE
  LET c3 == c2 \cup {"status"}
  IN IF git.status.st # "ok" THEN Raise("status", c3, <<>>) ELSE
  LET c4 == c3 \cup {"log"}
  IN IF git.log.st # "ok" THEN Raise("log", c4, <<>>) ELSE
  LET commitDiffs == diffSummary(git.diff)
      c5 == c4 \cup {"diff"}
  IN IF commitDiffs.kind = "throw" THEN Raise(commitDiffs.why, c5, <<>>) ELSE
  LET tracked == git.status.val.tracking # <<>>
      c6 == IF tracked THEN c5 \cup {"trackLog"} ELSE c5
  IN IF tracked /\ git.trackLog.st # "ok" THEN Raise("log", c6, <<>>) ELSE
  LET branchDetails == IF tracked THEN <<git.trackLog.val>> ELSE <<>>
      directoryHierarchy == getDirectoryHierarchy(gitRoot.path, gitRoot.path)
  IN IF directoryHierarchy.kind = "throw" THEN Raise(directoryHierarchy.why, c6, <<>>) ELSE
  LET config == readConfig(git.config)
      c7 == c6 \cup {"config"}
  IN IF config.kind = "throw" THEN Raise(config.why, c7, config.shown) ELSE
     Return([url |-> IF remoteUrl.val # <<>> THEN Trim(remoteUrl.val) ELSE <<>>,
             mainFolderName |-> mainFolderName(gitRoot.path),
             currentBranch |-> Trim(git.branch.val),
             status |-> git.status.val,
             commits |-> git.log.val.all,
             commitDiffs |-> commitDiffs.val.files,
             branchDetails |-> branchDetails,
             directoryHierarchy |-> directoryHierarchy,
             configUrls |-> config.configUrls],
            c7, config.shown)

\* the answers a call consumed; a call not made has none
Consumed(git, calls) == [c \in CallNames |-> IF c \in calls THEN git[c] ELSE Unasked]

FetchRepositoryInfo(repoPath, git) ==
  /\ Idle
  /\ repoPath \in DOMAIN fs
  /\ LET r == fetchRepositoryInfo(repoPath, git)
     IN /\ ret' = [op |-> "fetch", arg |-> repoPath, git |-> Consumed(git, r.calls),
                   out |-> IF r.kind = "ok" THEN [kind |-> "ok", val |-> r.val]
                           ELSE [kind |-> "throw", why |-> r.why]]
        /\ shown' = r.shown
  /\ UNCHANGED <<fs, unreadable, configLines>>

\* vscode.workspace.rootPath
NoWorkspace == [set |-> FALSE]
Workspace(p) == [set |-> TRUE, path |-> p]
NullValue == [kind |-> "null"]

\* as displayRepositoryInfo, the error shown and thrown on
displayRepositoryInfo_Rethrow(rootPath, git) ==
  IF rootPath.set
  THEN LET r == fetchRepositoryInfo(rootPath.path, git)
       IN IF r.kind = "ok"
          THEN [kind |-> "return", val |-> [kind |-> "snapshot", info |-> r.val],
                calls |-> r.calls, shown |-> r.shown]
          ELSE [kind |-> "throw", why |-> r.why,
                calls |-> r.calls, shown |-> Append(r.shown, FetchMsg)]
  ELSE [kind |-> "return", val |-> NullValue, calls |-> {}, shown |-> <<NoWorkspaceMsg>>]

displayRepositoryInfo(rootPath, git) ==
  IF rootPath.set
  THEN LET r == fetchRepositoryInfo(rootPath.path, git)
       IN IF r.kind = "ok"
          THEN [kind |-> "return", val |-> [kind |-> "snapshot", info |-> r.val],
                calls |-> r.calls, shown |-> r.shown]
          ELSE [kind |-> "return", val |-> NullValue,
                calls |-> r.calls, shown |-> Append(r.shown, FetchMsg)]
  ELSE [kind |-> "return", val |-> NullValue, calls |-> {}, shown |-> <<NoWorkspaceMsg>>]

DisplayRepositoryInfo(rootPath, git) ==
  /\ Idle
  /\ LET r == displayRepositoryInfo(rootPath, git)
     IN /\ ret' = [op |-> "display", arg |-> rootPath, git |-> Consumed(git, r.calls),
                   out |-> IF r.kind = "return" THEN [kind |-> "return", val |-> r.val]
                           ELSE [kind |-> "throw", why |-> r.why]]
        /\ shown' = r.shown
  /\ UNCHANGED <<fs, unreadable, configLines>>

\* the working tree the aggregator is run on
MkdirRepo(p, n, k) == Grow(MaxRepoEntries, p, n, k)

Init == InitFS

Next ==
  \/ \E p \in DOMAIN fs, n \in Names, k \in Kinds : MkdirRepo(p, n, k)
  \/ \E p \in DOMAIN fs : Chmod(p)
  \/ \E p \in DOMAIN fs, git \in Backends : FetchRepositoryInfo(p, git)
  \/ \E w \in {NoWorkspace} \cup {Workspace(p) : p \in DOMAIN fs}, git \in Backends :
       DisplayRepositoryInfo(w, git)
  \/ Discard

Spec == Init /\ [][Next]_vars

\* ------------------------------------------------- what the tree contains
IsPrefix(p, q) == Len(p) <= Len(q) /\ SubSeq(q, 1, Len(p)) = p

HasMarker(d) == \E i \in 1..Len(fs[d]) : fs[d][i].name = GIT /\ fs[d][i].kind = "dir"

\* directories with a direct .git directory child
Roots == {d \in DOMAIN fs : HasMarker(d)}

\* directories at or below p; directories at or above p
Subtree(p) == {d \in DOMAIN fs : IsPrefix(p, d)}
Ancestors(p) == {d \in DOMAIN fs : IsPrefix(d, p)}

RECURSIVE NodeCount(_)
RECURSIVE CountSubs(_, _)
CountSubs(subs, i) ==
  IF i > Len(subs) THEN 0 ELSE NodeCount(subs[i]) + CountSubs(subs, i + 1)
NodeCount(info) == 1 + CountSubs(info.subdirectories, 1)

RECURSIVE Nodes(_)
Nodes(info) ==
  {[name |-> info.name, path |-> info.path]}
    \cup UNION {Nodes(info.subdirectories[i]) : i \in 1..Len(info.subdirectories)}

LocateCalled == ret.op = "locate"
TopologyCalled == ret.op = "topology"

\* C1 (as stated): whenever the ancestor chain of the starting path P holds
\* exactly one directory R with a .git directory, locateRoot(P) returns R
\* (taken here with every directory readable).
C1_AncestorRootReturned ==
  (LocateCalled /\ unreadable = {}) =>
    \A R \in DOMAIN fs :
      (Roots \cap Ancestors(ret.arg) = {R}) => ret.out = Found(R)

\* C1 (amended): whenever the subtree below the starting path P (P included)
\* holds exactly one directory R with a .git directory, locateRoot(P) returns
\* R if no directory read fails, and otherwise R or the read error, never
\* NotFound and never another path.
C1_SubtreeRootReturned ==
  LocateCalled =>
    \A R \in DOMAIN fs :
      (Roots \cap Subtree(ret.arg) = {R}) =>
         /\ ret.out \in {Found(R), Throw("readdir")}
         /\ (unreadable = {}) => ret.out = Found(R)

\* the one root lies below the starting path, past a sibling subtree that is
\* listed (and searched) first, and is returned
C1_Witness ==
  /\ LocateCalled
  /\ \E R \in DOMAIN fs :
       /\ Roots \cap Subtree(ret.arg) = {R}
       /\ Len(R) > Len(ret.arg)
       /\ fs[ret.arg][1].kind = "dir"
       /\ ~IsPrefix(Append(ret.arg, fs[ret.arg][1].name), R)
       /\ ret.out = Found(R)

\* C2 (as stated): when no .git directory lies anywhere in the subtree of the
\* starting path, locateRoot returns NotFound and never throws, a failed
\* directory read included.
C2_NotFoundNeverThrows ==
  (LocateCalled /\ Roots \cap Subtree(ret.arg) = {}) => ret.out = Null

\* C2 (amended): when no .git directory lies anywhere in the subtree of the
\* starting path, locateRoot returns NotFound if every directory of the
\* subtree can be read, and throws the read error if one cannot.
C2_NotFoundOrReadError ==
  (LocateCalled /\ Roots \cap Subtree(ret.arg) = {}) =>
     ret.out = IF Subtree(ret.arg) \cap unreadable = {} THEN Null ELSE Throw("readdir")

\* no marker below the starting path, whose subdirectory cannot be read: the
\* search throws
C2_Witness ==
  /\ LocateCalled
  /\ Roots \cap Subtree(ret.arg) = {}
  /\ \E d \in Subtree(ret.arg) \cap unreadable : d # ret.arg
  /\ ret.out = Throw("readdir")

\* C9: whenever the directory examined has a direct .git directory child,
\* locateRoot returns that directory itself, whatever the subdirectories
\* listed before .git contain (all reads succeeding).
C9_DirectMarkerWins ==
  (LocateCalled /\ unreadable = {} /\ HasMarker(ret.arg)) => ret.out = Found(ret.arg)

\* C5: the tree buildTopology(root) returns has as many nodes as there are
\* directories reachable from root (root and .git included, files none),
\* each node's label resolved against root is the node's absolute path, the
\* root's label is "."; and it returns a tree whenever every read succeeds.
C5_TopologyMirrorsTree ==
  TopologyCalled =>
    /\ ret.out.kind = "node" <=> Subtree(ret.arg) \cap unreadable = {}
    /\ ret.out.kind = "node" =>
         /\ NodeCount(ret.out) = Cardinality(Subtree(ret.arg))
         /\ {n.path : n \in Nodes(ret.out)} = Subtree(ret.arg)
         /\ \A n \in Nodes(ret.out) : resolve(ret.arg, n.name) = n.path
         /\ ret.out.name = <<".">> /\ ret.out.path = ret.arg

\* a tree with a .git directory and a directory two levels down: four nodes
C5_Witness ==
  /\ TopologyCalled
  /\ ret.out.kind = "node"
  /\ HasMarker(ret.arg)
  /\ \E n \in Nodes(ret.out) : Len(n.name) = 2
  /\ NodeCount(ret.out) = 4

\* --------------------------------------------- what the file's lines hold
\* a line of the form `url = X`: optional whitespace, the key url, optional
\* whitespace, =, and a value X that is not empty
KeyAt(l) == SkipWs(l, 1)
EqAt(l) == SkipWs(l, KeyAt(l) + 3)
IsUrlLine(l) ==
  /\ KeyAt(l) + 2 <= Len(l)
  /\ SubSeq(l, KeyAt(l), KeyAt(l) + 2) = <<"u", "r", "l">>
  /\ EqAt(l) <= Len(l) /\ l[EqAt(l)] = "="
  /\ Trim(SubSeq(l, EqAt(l) + 1, Len(l))) # <<>>
ValueOf(l) == Trim(SubSeq(l, EqAt(l) + 1, Len(l)))

RECURSIVE UrlValues(_)
UrlValues(ls) ==
  IF ls = <<>> THEN <<>>
  ELSE (IF IsUrlLine(Head(ls)) THEN <<ValueOf(Head(ls))>> ELSE <<>>) \o UrlValues(Tail(ls))

ExtractCalled == ret.op = "extract"

\* C6: on a text of N lines `url = X` among unrelated lines, extractUrls
\* returns exactly the N values X, top to bottom, each trimmed, whatever the
\* unrelated lines hold.
C6_ExactlyTheUrlLines ==
  ExtractCalled => ret.out = UrlValues(configLines)

\* ------------------------------------------- what a call's answers decide
FetchCalled == ret.op = "fetch"
DisplayCalled == ret.op = "display"

\* the root is located and every required step after it succeeds: branch,
\* status, log, diff summary, the tracking log when a tracking branch is
\* reported, and every directory read of the topology
RequiredOk(p, g) ==
  LET r == findGitRootInSubdirectories(p)
  IN /\ r.kind = "path"
     /\ g.branch.st = "ok" /\ g.status.st = "ok"
     /\ g.log.st = "ok" /\ g.diff.st = "ok"
     /\ (g.status.val.tracking # <<>> => g.trackLog.st = "ok")
     /\ Subtree(r.path) \cap unreadable = {}

\* C3: fetchRepositoryInfo returns a snapshot only if the root was located
\* and the branch, status, log and diff-summary calls and the topology build
\* all succeeded (and exactly when the tracking log, if asked for, succeeded
\* too); otherwise the call throws and nothing is returned.
C3_SnapshotOnlyIfAllRequired ==
  FetchCalled =>
    /\ ret.out.kind \in {"ok", "throw"}
    /\ ret.out.kind = "ok" =>
         /\ findGitRootInSubdirectories(ret.arg).kind = "path"
         /\ \A c \in {"branch", "status", "log", "diff"} : ret.git[c].st = "ok"
         /\ Subtree(findGitRootInSubdirectories(ret.arg).path) \cap unreadable = {}
    /\ ret.out.kind = "ok" <=> RequiredOk(ret.arg, ret.git)
    /\ ret.out.kind = "throw" => DOMAIN ret.out = {"kind", "why"}

\* the root is found, the branch is answered, the status call fails: a throw
C3_Witness ==
  /\ FetchCalled
  /\ findGitRootInSubdirectories(ret.arg).kind = "path"
  /\ ret.git.branch.st = "ok"
  /\ ret.git.status = Fail
  /\ ret.out.kind = "throw"

\* C4: in a returned snapshot branchDetails is empty when the status reports
\* no tracking branch, and with a tracking branch it is non-empty only if the
\* tracking ref's log has commits.
C4_TrackingHistory ==
  (FetchCalled /\ ret.out.kind = "ok") =>
    IF ret.git.status.val.tracking = <<>>
    THEN ret.out.val.branchDetails = <<>>
    ELSE ret.out.val.branchDetails # <<>> => ret.git.trackLog.val.all # <<>>

\* every field of a snapshot but configUrls
Others(info) == [f \in DOMAIN info \ {"configUrls"} |-> info[f]]

\* C7: when the root is found and every required step succeeds but the read
\* of the configuration file fails, the call returns a snapshot with
\* configUrls empty, the error is shown once, and every other field is what
\* it is when the read succeeds.
C7_ConfigFailureRecovered ==
  (FetchCalled /\ RequiredOk(ret.arg, ret.git) /\ ret.git.config.st # "ok") =>
    /\ ret.git.config = Fail
    /\ ret.out.kind = "ok"
    /\ ret.out.val.configUrls = <<>>
    /\ shown = <<ConfigMsg>>
    /\ \A answer \in ConfigAnswers \ {Fail} :
         LET good == fetchRepositoryInfo(ret.arg, [ret.git EXCEPT !.config = answer])
         IN good.kind = "ok" /\ Others(good.val) = Others(ret.out.val)

\* the read fails on a repository with a remote and a tracking branch
C7_Witness ==
  /\ FetchCalled
  /\ ret.git.config = Fail
  /\ ret.out.kind = "ok"
  /\ ret.out.val.configUrls = <<>>
  /\ ret.out.val.url # <<>>
  /\ ret.out.val.branchDetails # <<>>
  /\ shown = <<ConfigMsg>>

\* C8: a failed remote-URL call never fails fetchRepositoryInfo: the branch
\* is asked for next, the call succeeds whenever the required steps do, and
\* a snapshot returned after the failure, or after an empty answer, has url
\* the empty string.
C8_RemoteFailureRecovered ==
  FetchCalled =>
    /\ ret.git.remote = Fail =>
         /\ ret.git.branch.st # "unasked"
         /\ RequiredOk(ret.arg, ret.git) => ret.out.kind = "ok"
         /\ ret.out.kind = "ok" => ret.out.val.url = <<>>
    /\ (ret.git.remote = Ok(<<>>) /\ ret.out.kind = "ok") => ret.out.val.url = <<>>

\* the remote call fails and a snapshot with configuration URLs is returned
C8_Witness ==
  /\ FetchCalled
  /\ ret.git.remote = Fail
  /\ ret.out.kind = "ok"
  /\ ret.out.val.url = <<>>
  /\ ret.out.val.configUrls # <<>>

\* C10: displayRepositoryInfo always returns, a snapshot or null; null
\* exactly when no workspace path is set or fetchRepositoryInfo threw; and it
\* shows at most one error message (none after a config-read message).
C10_DisplayNeverThrows ==
  DisplayCalled =>
    /\ ret.out.kind = "return"
    /\ ret.out.val.kind \in {"snapshot", "null"}
    /\ ret.out.val = NullValue <=>
         (~ret.arg.set \/ ~RequiredOk(ret.arg.path, ret.git))
    /\ Len(shown) <= 1
    /\ (shown # <<>> /\ shown[1] = ConfigMsg) => ret.out.val.kind = "snapshot"

\* a workspace is open, the diff summary fails: null, one message
C10_Witness ==
  /\ DisplayCalled
  /\ ret.arg.set
  /\ ret.git.diff = Fail
  /\ ret.out.kind = "return"
  /\ ret.out.val = NullValue
  /\ shown = <<FetchMsg>>
====
